---------------------------- MODULE Spec2Model ----------------------------
(***************************************************************************)
(* A model of the lamina kernel module (src/kernel): the load-time safety  *)
(* gate (lamina_init / init_pmcs, main.c), the ioctl dispatcher            *)
(* (lamina_ioctl, fops.c) and the counter programming engine (write_pmcs,  *)
(* fops.c) that runs on TARGET_CPU through smp_call_function_single.       *)
(*                                                                         *)
(* A 64-bit register value is the set of its set bit positions (0..63):    *)
(* bitwise AND is intersection, zero is the empty set.  An MSR address is  *)
(* its offset from 0xc0010200, so PERF_CTL[i] is 2*i and PERF_CTR[i] is    *)
(* 2*i+1, as in the tables of main.c and the literals of fops.c.           *)
(***************************************************************************)
EXTENDS Integers, Sequences, FiniteSets

\* ------------------------------------------------------------ constants
NumSlots == 6
TARGET_CPU == 0
LAMINA_CMD_WRITECTL == 4096
EnableShift == 22
EINVAL == 22

\* ------------------------------------------------------------ bounds
\* cores of the machine (core 0 is TARGET_CPU)
NumCpus == 2
\* most nonzero words in an envelope a caller passes
MaxNonzero == 2
\* most nonzero registers the hardware holds when the module is loaded
MaxDirty == 2
\* most wrmsrl_safe_on_cpu failures during one init_pmcs
MaxFaults == 1

Slots == 0 .. (NumSlots - 1)
Cpus == 0 .. (NumCpus - 1)
MsrOffs == 0 .. (2 * NumSlots - 1)
AllCallers == {1, 2}
Callers == {1}

\* ------------------------------------------------------------ 64-bit values
Zero == {}
\* 0x200004300d0: event 0xd0, unit mask 0x00, USR|OS, enable (bit 22), bit 41
VEn == {4, 6, 7, 16, 17, 22, 41}
\* 0x10000000001: a disabled control value with a bit above bit 31
VDis == {0, 40}
\* a running tally left in a count register
VCnt == {3, 33}
NzVals == {VEn, VDis}

BitAnd(a, b) == a \cap b

\* the int constant (1 << n), as the set of bits of a 32-bit int
IntShl1(n) == {n}
\* ~x on a 32-bit int
IntNot(x) == (0 .. 31) \ x
ZeroExtend(x) == x
\* conversion of a (signed) int operand to u64: sign extension
IntToU64(x) == IF 31 \in x THEN x \cup (32 .. 63) ELSE x

\* tmp & (1 << 22): the complement left out
ClearEnableNoTilde(v) == BitAnd(v, IntToU64(IntShl1(EnableShift)))
\* tmp & ~(1 << 22)
ClearEnable(v) == BitAnd(v, IntToU64(IntNot(IntShl1(EnableShift))))
\* (val & (1 << 21)) != 0: the wrong bit tested
IsEnabledBit21(v) == BitAnd(v, IntToU64(IntShl1(EnableShift - 1))) # Zero
\* (val & (1 << 22)) != 0
IsEnabled(v) == BitAnd(v, IntToU64(IntShl1(EnableShift))) # Zero

\* ------------------------------------------------------------ register tables
PERF_CTL_MSR == [i \in Slots |-> 2 * i]
\* the count-register table off by one slot
PERF_CTR_MSR_Shifted == [i \in Slots |-> 2 * ((i + 1) % NumSlots) + 1]
PERF_CTR_MSR == [i \in Slots |-> 2 * i + 1]

ZeroEnv == [i \in Slots |-> Zero]
ZeroMsrs == [r \in MsrOffs |-> Zero]

NonzeroCount(f) == Cardinality({x \in DOMAIN f : f[x] # Zero})

\* the envelopes callers pass: six words, at most MaxNonzero of them nonzero
Envelopes ==
    {e \in [Slots -> NzVals \cup {Zero}] : NonzeroCount(e) <= MaxNonzero}

\* register files the hardware may hold at load time: at most MaxDirty
\* registers nonzero, a control register holding a control value and a count
\* register a tally
BootMsrs ==
    UNION {
        {[r \in MsrOffs |->
            IF r \notin D THEN Zero
            ELSE IF r % 2 = 0 THEN f[r] ELSE VCnt] :
                f \in [{r \in D : r % 2 = 0} -> NzVals]} :
        D \in {X \in SUBSET MsrOffs : Cardinality(X) <= MaxDirty}}

VARIABLES
    vendor,      \* boot_cpu_data.x86_vendor
    cr4pce,      \* native_read_cr4() & X86_CR4_PCE
    msr,         \* msr[cpu][offset]: the PERF_CTL/PERF_CTR registers of each core
    boot,        \* the register file of TARGET_CPU when lamina_init was entered
                 \* (kept while lamina_init runs, dropped once the module is loaded)
    mod,         \* position of lamina_init / module lifecycle
    initI,       \* loop variable i of init_pmcs
    initErr,     \* which pr_err lamina_init / init_pmcs printed
    errSlot,     \* the slot that message names
    faults,      \* wrmsrl_safe_on_cpu calls of this init_pmcs that returned an error
                 \* (dropped once the module is loaded)
    registered,  \* misc_register(&lamina_dev) succeeded and not yet deregistered
    msg,         \* struct lamina_msg msg (fops.c:10), the staging buffer
    pc,          \* per caller: position in lamina_ioctl
    cmd,         \* per caller: the cmd argument
    env,         \* per caller: the envelope in user memory at arg
    unmapped,    \* per caller: the trailing words of that envelope that
                 \* cannot be read
    ncopied,     \* per caller: words of msg the copy_from_user of this call
                 \* has written so far
    res,         \* per caller: the local res
    done,        \* per caller: the write_pmcs run of this call has finished
    engOwner,    \* the caller whose write_pmcs run occupies the engine (0: none)
    engCpu,      \* the core executing write_pmcs
    epc,         \* index in WritePmcsCode of the next register access
    tmp,         \* u64 tmp[6] of write_pmcs
    log,         \* the wrmsrl calls of the current write_pmcs run, in order
    calls,       \* commands issued so far in the issue-twice scenario
    after1,      \* the register file of TARGET_CPU after the first of them
    first        \* the envelope of the first of them, and its unreadable words

vars == <<vendor, cr4pce, msr, boot, mod, initI, initErr, errSlot, faults,
          registered, msg, pc, cmd, env, res, done, engOwner, engCpu, epc,
          tmp, log, calls, after1, first, unmapped, ncopied>>

hwVars == <<vendor, cr4pce, boot>>
initVars == <<mod, initI, initErr, errSlot, faults, registered>>
copyVars == <<unmapped, ncopied>>
callVars == <<pc, cmd, env, res, done, copyVars>>
engVars == <<engOwner, engCpu, epc, tmp, log>>
twiceVars == <<calls, after1, first>>

Init ==
    /\ vendor \in {"AMD", "OTHER"}
    /\ cr4pce \in BOOLEAN
    /\ boot \in BootMsrs
    /\ msr = [c \in Cpus |-> IF c = TARGET_CPU THEN boot ELSE ZeroMsrs]
    /\ mod = "start"
    /\ initI = 0
    /\ initErr = "none"
    /\ errSlot = -1
    /\ faults = 0
    /\ registered = FALSE
    /\ msg = ZeroEnv
    /\ pc = [c \in AllCallers |-> "idle"]
    /\ cmd = [c \in AllCallers |-> 0]
    /\ env = [c \in AllCallers |-> ZeroEnv]
    /\ res = [c \in AllCallers |-> 0]
    /\ done = [c \in AllCallers |-> FALSE]
    /\ engOwner = 0
    /\ engCpu = TARGET_CPU
    /\ epc = 1
    /\ tmp = ZeroEnv
    /\ log = <<>>
    /\ calls = 0
    /\ after1 = ZeroMsrs
    /\ first = <<ZeroEnv, 0>>
    /\ unmapped = [c \in AllCallers |-> 0]
    /\ ncopied = [c \in AllCallers |-> 0]

\* ------------------------------------------------------------ MSR access
\* rdmsrl / rdmsrl_safe_on_cpu: the value of the register on that core
Rdmsr(m, cpu, r) == m[cpu][r]
\* wrmsrl: the register on that core takes the value
Wrmsr(m, cpu, r, v) == [m EXCEPT ![cpu][r] = v]
\* wrmsrl_safe_on_cpu: as wrmsrl when it succeeds, no effect when it fails
WrmsrSafeOnCpu(m, cpu, r, v, ok) == IF ok THEN Wrmsr(m, cpu, r, v) ELSE m

\* ------------------------------------------------------------ lamina_init
\* main.c:64-67 without the return: the message is printed, loading goes on
InitUnsupportedCpuNoReturn ==
    /\ mod = "start"
    /\ vendor # "AMD"
    /\ mod' = "init_pmcs"
    /\ initI' = 0
    /\ UNCHANGED <<twiceVars, hwVars, msr, initErr, errSlot, faults, registered, msg,
                   callVars, engVars>>

\* main.c:64-67
InitUnsupportedCpu ==
    /\ mod = "start"
    /\ vendor # "AMD"
    /\ mod' = "failed"
    /\ initErr' = "unsupported"
    /\ UNCHANGED <<twiceVars, hwVars, msr, initI, errSlot, faults, registered, msg,
                   callVars, engVars>>

\* main.c:70-73 without the return: the message is printed, loading goes on
InitPceUnsetNoReturn ==
    /\ mod = "start"
    /\ vendor = "AMD"
    /\ ~cr4pce
    /\ mod' = "init_pmcs"
    /\ initI' = 0
    /\ UNCHANGED <<twiceVars, hwVars, msr, initErr, errSlot, faults, registered, msg,
                   callVars, engVars>>

\* main.c:70-73
InitPceUnset ==
    /\ mod = "start"
    /\ vendor = "AMD"
    /\ ~cr4pce
    /\ mod' = "failed"
    /\ initErr' = "pce_unset"
    /\ UNCHANGED <<twiceVars, hwVars, msr, initI, errSlot, faults, registered, msg,
                   callVars, engVars>>

\* main.c:75, 40: both checks passed, init_pmcs is entered with i = 0
InitPmcsEnter ==
    /\ mod = "start"
    /\ vendor = "AMD"
    /\ cr4pce
    /\ mod' = "init_pmcs"
    /\ initI' = 0
    /\ UNCHANGED <<twiceVars, hwVars, msr, initErr, errSlot, faults, registered, msg,
                   callVars, engVars>>

\* main.c:42-45: rdmsrl_safe_on_cpu returns an error
InitPmcsReadFail ==
    /\ mod = "init_pmcs"
    /\ initI < NumSlots
    /\ mod' = "failed"
    /\ initErr' = "rdmsr"
    /\ errSlot' = initI
    /\ UNCHANGED <<twiceVars, hwVars, msr, initI, faults, registered, msg, callVars,
                   engVars>>

\* main.c:47-50: the slot's control register has its enable bit set
InitPmcsActive ==
    /\ mod = "init_pmcs"
    /\ initI < NumSlots
    /\ IsEnabled(Rdmsr(msr, TARGET_CPU, PERF_CTL_MSR[initI]))
    /\ mod' = "failed"
    /\ initErr' = "active"
    /\ errSlot' = initI
    /\ UNCHANGED <<twiceVars, hwVars, msr, initI, faults, registered, msg, callVars,
                   engVars>>

\* main.c:51-54: the slot is not enabled; both registers are written with 0
\* by wrmsrl_safe_on_cpu, whose return value is not looked at
InitPmcsZero ==
    /\ mod = "init_pmcs"
    /\ initI < NumSlots
    /\ ~IsEnabled(Rdmsr(msr, TARGET_CPU, PERF_CTL_MSR[initI]))
    /\ \E okCtl \in BOOLEAN, okCtr \in BOOLEAN :
          LET n == (IF okCtl THEN 0 ELSE 1) + (IF okCtr THEN 0 ELSE 1)
              m1 == WrmsrSafeOnCpu(msr, TARGET_CPU, PERF_CTL_MSR[initI],
                                   Zero, okCtl)
              m2 == WrmsrSafeOnCpu(m1, TARGET_CPU, PERF_CTR_MSR[initI],
                                   Zero, okCtr)
          IN  /\ faults + n <= MaxFaults
              /\ faults' = faults + n
              /\ msr' = m2
    /\ initI' = initI + 1
    /\ UNCHANGED <<twiceVars, hwVars, mod, initErr, errSlot, registered, msg, callVars,
                   engVars>>

\* main.c:40, 57: the loop has run six times, init_pmcs returns 0
InitPmcsReturn ==
    /\ mod = "init_pmcs"
    /\ initI = NumSlots
    /\ mod' = "pmcs_ok"
    /\ UNCHANGED <<twiceVars, hwVars, msr, initI, initErr, errSlot, faults, registered,
                   msg, callVars, engVars>>

\* main.c:78, 82-84: misc_register succeeds, the module is loaded
MiscRegisterOk ==
    /\ mod = "pmcs_ok"
    /\ mod' = "loaded"
    /\ registered' = TRUE
    /\ faults' = 0
    /\ boot' = ZeroMsrs
    /\ UNCHANGED <<twiceVars, vendor, cr4pce, msr, initI, initErr, errSlot, msg,
                   callVars, engVars>>

\* main.c:78-81: misc_register fails
MiscRegisterFail ==
    /\ mod = "pmcs_ok"
    /\ mod' = "failed"
    /\ initErr' = "register"
    /\ UNCHANGED <<twiceVars, hwVars, msr, initI, errSlot, faults, registered, msg,
                   callVars, engVars>>

\* main.c:87-91: the module is unloaded (no file of the device is in use)
LaminaExit ==
    /\ mod = "loaded"
    /\ \A c \in AllCallers : pc[c] = "idle"
    /\ mod' = "exited"
    /\ registered' = FALSE
    /\ UNCHANGED <<twiceVars, hwVars, msr, initI, initErr, errSlot, faults, msg,
                   callVars, engVars>>

\* ------------------------------------------------------------ write_pmcs
Rd(r, i) == [op |-> "rd", reg |-> r, idx |-> i]
WrMask(r, i) == [op |-> "wrmask", reg |-> r, idx |-> i]
WrZero(r) == [op |-> "wrzero", reg |-> r, idx |-> 0]
WrMsg(r, i) == [op |-> "wrmsg", reg |-> r, idx |-> i]

\* write_pmcs with the last line writing msg->ctl[4] instead of msg->ctl[5]
WritePmcsCodeSlip ==
    << Rd(0, 0), Rd(2, 1), Rd(4, 2), Rd(6, 3), Rd(8, 4), Rd(10, 5),
       WrMask(0, 0), WrMask(2, 1), WrMask(4, 2), WrMask(6, 3), WrMask(8, 4),
       WrMask(10, 5),
       WrZero(1), WrZero(3), WrZero(5), WrZero(7), WrZero(9), WrZero(11),
       WrMsg(0, 0), WrMsg(2, 1), WrMsg(4, 2), WrMsg(6, 3), WrMsg(8, 4),
       WrMsg(10, 4) >>

\* write_pmcs with fops.c:48 clearing 0xc0010209 a second time instead of
\* 0xc001020b
WritePmcsCodeCtrSlip ==
    << Rd(0, 0), Rd(2, 1), Rd(4, 2), Rd(6, 3), Rd(8, 4), Rd(10, 5),
       WrMask(0, 0), WrMask(2, 1), WrMask(4, 2), WrMask(6, 3), WrMask(8, 4),
       WrMask(10, 5),
       WrZero(1), WrZero(3), WrZero(5), WrZero(7), WrZero(9), WrZero(9),
       WrMsg(0, 0), WrMsg(2, 1), WrMsg(4, 2), WrMsg(6, 3), WrMsg(8, 4),
       WrMsg(10, 5) >>

\* the register accesses of write_pmcs in program order (fops.c:27-56);
\* 0xc0010200 + reg is the MSR, idx the index into tmp[] or msg->ctl[]
WritePmcsCode ==
    << Rd(0, 0), Rd(2, 1), Rd(4, 2), Rd(6, 3), Rd(8, 4), Rd(10, 5),
       WrMask(0, 0), WrMask(2, 1), WrMask(4, 2), WrMask(6, 3), WrMask(8, 4),
       WrMask(10, 5),
       WrZero(1), WrZero(3), WrZero(5), WrZero(7), WrZero(9), WrZero(11),
       WrMsg(0, 0), WrMsg(2, 1), WrMsg(4, 2), WrMsg(6, 3), WrMsg(8, 4),
       WrMsg(10, 5) >>

CodeLen == Len(WritePmcsCode)

\* the count clear writing the saved control value instead of 0
WrValueZeroSlip(o, t, g) ==
    CASE o.op = "wrmask" -> ClearEnable(t[o.idx])
      [] o.op = "wrzero" -> t[o.reg \div 2]
      [] o.op = "wrmsg" -> g[o.idx]

\* the write phase writing back the saved tmp[] instead of msg->ctl[]
WrValueOldSlip(o, t, g) ==
    CASE o.op = "wrmask" -> ClearEnable(t[o.idx])
      [] o.op = "wrzero" -> Zero
      [] o.op = "wrmsg" -> t[o.idx]

\* the value one wrmsrl of write_pmcs writes
WrValue(o, t, g) ==
    CASE o.op = "wrmask" -> ClearEnable(t[o.idx])
      [] o.op = "wrzero" -> Zero
      [] o.op = "wrmsg" -> g[o.idx]

\* ------------------------------------------------------------ lamina_ioctl
Cmds == {0, LAMINA_CMD_WRITECTL, LAMINA_CMD_WRITECTL + 1}

\* the switch of lamina_ioctl (fops.c:65-66): case LAMINA_CMD_WRITECTL
IsWriteCtlOrAbove(k) == k >= LAMINA_CMD_WRITECTL
IsWriteCtl(k) == k = LAMINA_CMD_WRITECTL

\* words of the envelope copy_from_user may fail to copy: none, the second
\* half (the envelope straddles an unmapped page), all
UncopiedWords == {0, NumSlots \div 2, NumSlots}

\* copy_from_user(&msg, arg, sizeof(struct lamina_msg)) when the last u words
\* of the source cannot be read: the words before them are copied, the rest of
\* the destination is zeroed, and the number of bytes not copied is returned
CopyFromUser(dst, src, u) ==
    [buf |-> [i \in Slots |-> IF i < NumSlots - u THEN src[i] ELSE Zero],
     left |-> 8 * u]

\* the last argument of smp_call_function_single (fops.c:70): wait
SmpCallNoWait == FALSE
SmpCallWait == TRUE

\* the core smp_call_function_single(cpu, ...) runs the function on
SmpCallLocal(cpu, callerCpu) == callerCpu
SmpCallCpu(cpu, callerCpu) == cpu

\* smp_call_function_single starting write_pmcs whatever TARGET_CPU is doing
EngineFreeAlways == TRUE
\* TARGET_CPU runs the functions sent to it one at a time, with interrupts
\* off: a run starts when no other run is in progress
EngineFree == engOwner = 0 \/ epc = CodeLen + 1

\* fops.c:63, 65, 72-76: a command code other than LAMINA_CMD_WRITECTL
IoctlUnknown(c) ==
    /\ registered
    /\ pc[c] = "idle"
    /\ \E k \in Cmds :
          /\ ~IsWriteCtl(k)
          /\ cmd' = [cmd EXCEPT ![c] = k]
    /\ res' = [res EXCEPT ![c] = -EINVAL]
    /\ pc' = [pc EXCEPT ![c] = "ret"]
    /\ UNCHANGED <<twiceVars, copyVars, hwVars, initVars, msr, msg, env, done, engVars>>

\* fops.c:61-67: the effect of entering lamina_ioctl with
\* LAMINA_CMD_WRITECTL and arg pointing at envelope e, whose last u words
\* cannot be read: res is -EINVAL and copy_from_user is about to start
IoctlCopyBeginWith(c, e, u) ==
    /\ env' = [env EXCEPT ![c] = e]
    /\ unmapped' = [unmapped EXCEPT ![c] = u]
    /\ ncopied' = [ncopied EXCEPT ![c] = 0]
    /\ \E k \in Cmds :
          /\ IsWriteCtl(k)
          /\ cmd' = [cmd EXCEPT ![c] = k]
    /\ res' = [res EXCEPT ![c] = -EINVAL]
    /\ pc' = [pc EXCEPT ![c] = "copying"]
    /\ UNCHANGED <<hwVars, initVars, msr, msg, done, engVars>>

\* a caller not in a call enters lamina_ioctl with one of the envelopes E
IoctlCopyBeginFrom(c, E) ==
    /\ registered
    /\ pc[c] = "idle"
    /\ \E e \in E, u \in UncopiedWords : IoctlCopyBeginWith(c, e, u)
    /\ UNCHANGED twiceVars

IoctlCopyBegin(c) == IoctlCopyBeginFrom(c, Envelopes)

\* fops.c:67: copy_from_user stores the next word of msg.  msg is the one
\* global of fops.c:10 and nothing is locked: the words are stored one after
\* another, and between two of them another caller's copy and the accesses
\* of write_pmcs go on.  With the last word stored copy_from_user returns
\* the bytes it could not copy, which become res.
IoctlCopyWord(c) ==
    /\ pc[c] = "copying"
    /\ ncopied[c] < NumSlots
    /\ LET i == ncopied[c]
           r == CopyFromUser(msg, env[c], unmapped[c])
       IN  /\ msg' = [msg EXCEPT ![i] = r.buf[i]]
           /\ IF i + 1 < NumSlots
              THEN /\ ncopied' = [ncopied EXCEPT ![c] = i + 1]
                   /\ UNCHANGED <<pc, res, unmapped>>
              ELSE /\ ncopied' = [ncopied EXCEPT ![c] = 0]
                   /\ unmapped' = [unmapped EXCEPT ![c] = 0]
                   /\ res' = [res EXCEPT ![c] = r.left]
                   /\ pc' = [pc EXCEPT ![c] = "copied"]
    /\ UNCHANGED <<twiceVars, hwVars, initVars, msr, cmd, env, done, engVars>>

\* fops.c:70: smp_call_function_single starts write_pmcs on TARGET_CPU, from
\* whichever core the caller runs on; runs of write_pmcs do not overlap
SmpCall(c) ==
    /\ pc[c] = "copied"
    /\ EngineFree
    /\ \E callerCpu \in Cpus :
          engCpu' = SmpCallCpu(TARGET_CPU, callerCpu)
    /\ engOwner' = c
    /\ epc' = 1
    /\ tmp' = ZeroEnv
    /\ log' = <<>>
    /\ done' = [done EXCEPT ![c] = FALSE]
    /\ pc' = [pc EXCEPT ![c] = "wait"]
    /\ UNCHANGED <<twiceVars, copyVars, hwVars, initVars, msr, msg, cmd, env, res>>

\* fops.c:27-32: one rdmsrl of write_pmcs
EngineRead ==
    /\ engOwner # 0
    /\ epc <= CodeLen
    /\ WritePmcsCode[epc].op = "rd"
    /\ LET o == WritePmcsCode[epc]
       IN  tmp' = [tmp EXCEPT ![o.idx] = Rdmsr(msr, engCpu, o.reg)]
    /\ epc' = epc + 1
    /\ done' = [done EXCEPT ![engOwner] = (epc = CodeLen)]
    /\ UNCHANGED <<twiceVars, copyVars, hwVars, initVars, msr, msg, pc, cmd, env, res, engOwner,
                   engCpu, log>>

\* fops.c:35-56: one wrmsrl of write_pmcs
EngineWrite ==
    /\ engOwner # 0
    /\ epc <= CodeLen
    /\ WritePmcsCode[epc].op # "rd"
    /\ LET o == WritePmcsCode[epc]
           v == WrValue(o, tmp, msg)
       IN  /\ msr' = Wrmsr(msr, engCpu, o.reg, v)
           /\ log' = Append(log, [op |-> o.op, reg |-> o.reg, val |-> v])
    /\ epc' = epc + 1
    /\ done' = [done EXCEPT ![engOwner] = (epc = CodeLen)]
    /\ UNCHANGED <<twiceVars, copyVars, hwVars, initVars, msg, pc, cmd, env, res, engOwner,
                   engCpu, tmp>>

\* fops.c:70: smp_call_function_single returns to lamina_ioctl
SmpReturn(c) ==
    /\ pc[c] = "wait"
    /\ SmpCallWait => done[c]
    /\ pc' = [pc EXCEPT ![c] = "ret"]
    /\ UNCHANGED <<twiceVars, copyVars, hwVars, initVars, msr, msg, cmd, env, res, done, engVars>>

\* fops.c:76: lamina_ioctl has returned res; the caller goes on
IoctlReturn(c) ==
    /\ pc[c] = "ret"
    /\ pc' = [pc EXCEPT ![c] = "idle"]
    /\ cmd' = [cmd EXCEPT ![c] = 0]
    /\ env' = [env EXCEPT ![c] = ZeroEnv]
    /\ res' = [res EXCEPT ![c] = 0]
    /\ done' = [done EXCEPT ![c] = FALSE]
    /\ IF engOwner = c /\ epc = CodeLen + 1
       THEN /\ engOwner' = 0
            /\ epc' = 1
            /\ tmp' = ZeroEnv
            /\ log' = <<>>
            /\ UNCHANGED engCpu
       ELSE UNCHANGED engVars
    /\ UNCHANGED <<twiceVars, copyVars, hwVars, initVars, msr, msg>>

\* ------------------------------------------------------------ specification
Next ==
    \/ InitUnsupportedCpu
    \/ InitPceUnset
    \/ InitPmcsEnter
    \/ InitPmcsReadFail
    \/ InitPmcsActive
    \/ InitPmcsZero
    \/ InitPmcsReturn
    \/ MiscRegisterOk
    \/ MiscRegisterFail
    \/ LaminaExit
    \/ \E c \in Callers : IoctlUnknown(c)
    \/ \E c \in Callers : IoctlCopyBegin(c)
    \/ \E c \in Callers : IoctlCopyWord(c)
    \/ \E c \in Callers : SmpCall(c)
    \/ EngineRead
    \/ EngineWrite
    \/ \E c \in Callers : SmpReturn(c)
    \/ \E c \in Callers : IoctlReturn(c)

Spec == Init /\ [][Next]_vars

\* ------------------------------------------------------------ two callers
\* the envelopes of the two concurrent callers
EnvA == [i \in Slots |-> IF i = 1 THEN VEn ELSE Zero]
EnvB == [i \in Slots |-> IF i = 1 THEN VDis ELSE IF i = 4 THEN VEn ELSE Zero]
ConcEnvelopes == {EnvA, EnvB}

\* an AMD machine with CR4.PCE set and all counters idle and zero
InitConc ==
    /\ Init
    /\ vendor = "AMD"
    /\ cr4pce
    /\ boot = ZeroMsrs

\* two threads use the device at the same time
NextConc ==
    \/ InitPmcsEnter
    \/ InitPmcsReadFail
    \/ InitPmcsZero
    \/ InitPmcsReturn
    \/ MiscRegisterOk
    \/ MiscRegisterFail
    \/ LaminaExit
    \/ \E c \in AllCallers : IoctlUnknown(c)
    \/ \E c \in AllCallers : IoctlCopyBeginFrom(c, ConcEnvelopes)
    \/ \E c \in AllCallers : IoctlCopyWord(c)
    \/ \E c \in AllCallers : SmpCall(c)
    \/ EngineRead
    \/ EngineWrite
    \/ \E c \in AllCallers : SmpReturn(c)
    \/ \E c \in AllCallers : IoctlReturn(c)

SpecConc == InitConc /\ [][NextConc]_vars

\* ------------------------------------------------------------ a command twice
\* register files of TARGET_CPU before the first command: up to two
\* registers nonzero
PriorMsrs == {m \in BootMsrs : NonzeroCount(m) <= 2}

\* the module is loaded; the registers of TARGET_CPU hold what earlier
\* commands, and the counting of the counters they enabled, have left
InitTwice ==
    /\ vendor = "AMD"
    /\ cr4pce = TRUE
    /\ boot = ZeroMsrs
    /\ \E m \in PriorMsrs :
          msr = [c \in Cpus |-> IF c = TARGET_CPU THEN m ELSE ZeroMsrs]
    /\ mod = "loaded"
    /\ initI = NumSlots
    /\ initErr = "none"
    /\ errSlot = -1
    /\ faults = 0
    /\ registered = TRUE
    /\ msg = ZeroEnv
    /\ pc = [c \in AllCallers |-> "idle"]
    /\ cmd = [c \in AllCallers |-> 0]
    /\ env = [c \in AllCallers |-> ZeroEnv]
    /\ res = [c \in AllCallers |-> 0]
    /\ done = [c \in AllCallers |-> FALSE]
    /\ engOwner = 0
    /\ engCpu = TARGET_CPU
    /\ epc = 1
    /\ tmp = ZeroEnv
    /\ log = <<>>
    /\ calls = 0
    /\ after1 = ZeroMsrs
    /\ first = <<ZeroEnv, 0>>
    /\ unmapped = [c \in AllCallers |-> 0]
    /\ ncopied = [c \in AllCallers |-> 0]

\* fops.c:61-67: the only caller issues a write-control command; the first
\* has any envelope, readable or not, the second is the first again
IoctlCopyBeginTwice(c) ==
    /\ calls < 2
    /\ registered
    /\ pc[c] = "idle"
    /\ \E e \in Envelopes, u \in UncopiedWords :
          /\ calls = 1 => <<e, u>> = first
          /\ IoctlCopyBeginWith(c, e, u)
          /\ first' = <<e, u>>
    /\ after1' = IF calls = 1 THEN msr[TARGET_CPU] ELSE after1
    /\ calls' = calls + 1

NextTwice ==
    \/ \E c \in Callers : IoctlCopyBeginTwice(c)
    \/ \E c \in Callers : IoctlCopyWord(c)
    \/ \E c \in Callers : SmpCall(c)
    \/ EngineRead
    \/ EngineWrite
    \/ \E c \in Callers : SmpReturn(c)
    \/ \E c \in Callers : IoctlReturn(c)

SpecTwice == InitTwice /\ [][NextTwice]_vars

\* ------------------------------------------------------------ properties
\* the registers of the designated core, by slot
CtlReg(i) == msr[TARGET_CPU][2 * i]
CtrReg(i) == msr[TARGET_CPU][2 * i + 1]
BootCtl(i) == boot[2 * i]
BootCtr(i) == boot[2 * i + 1]
EnableSet(v) == EnableShift \in v
CtlRegs == {2 * i : i \in Slots}
CtrRegs == {2 * i + 1 : i \in Slots}
LogIdx(k) == {j \in DOMAIN log : log[j].op = k}
LogRegs(k) == {log[j].reg : j \in LogIdx(k)}
MinOf(S) == CHOOSE x \in S : \A y \in S : x <= y

\* C1: when a write-control command whose copy succeeded has had its
\* write_pmcs run complete, control register i of the designated core equals
\* word i of the caller's envelope for every slot i, and all six count
\* registers are zero.
C1_ProgramWritesEnvelope ==
    \A c \in Callers :
        (cmd[c] = LAMINA_CMD_WRITECTL /\ res[c] = 0 /\ done[c]) =>
            \A i \in Slots : CtlReg(i) = env[c][i] /\ CtrReg(i) = Zero

\* a completed run that replaced an enabled word by zero in slot 0, wrote the
\* enabled word of the envelope to slot 5 and a disabled one to slot 3
C1_Witness ==
    /\ pc[1] = "ret" /\ cmd[1] = LAMINA_CMD_WRITECTL /\ res[1] = 0 /\ done[1]
    /\ tmp[0] = VEn /\ env[1][0] = Zero
    /\ env[1][5] = VEn /\ env[1][3] = VDis
    /\ CtlReg(5) = VEn

\* C2: in the write phase of every write_pmcs run, the odd slot of each pair
\* (0,1), (2,3), (4,5) has its new control value written before the even slot
\* of the pair.
C2_OddBeforeEven ==
    \A p \in 0 .. (NumSlots \div 2 - 1) :
        \A k \in LogIdx("wrmsg") :
            log[k].reg = 2 * (2 * p) =>
                \E j \in LogIdx("wrmsg") :
                    j < k /\ log[j].reg = 2 * (2 * p + 1)

\* the first write of a new control value is the next access of the run
FirstNewPending ==
    /\ engOwner # 0
    /\ epc <= CodeLen
    /\ WritePmcsCode[epc].op = "wrmsg"
    /\ LogIdx("wrmsg") = {}

\* C3: in every write_pmcs run all six disable writes precede all six count
\* clears, which precede the first write of a new control value; when that
\* first write is about to happen every control register has its enable flag
\* clear and every count register is zero.
C3_DisableClearWrite ==
    /\ \A j \in LogIdx("wrmask"), k \in LogIdx("wrzero") : j < k
    /\ \A j \in LogIdx("wrzero"), k \in LogIdx("wrmsg") : j < k
    /\ \A j \in LogIdx("wrmask"), k \in LogIdx("wrmsg") : j < k
    /\ LogIdx("wrzero") # {} => LogRegs("wrmask") = CtlRegs
    /\ (LogIdx("wrmsg") # {} \/ FirstNewPending) =>
          /\ LogRegs("wrmask") = CtlRegs
          /\ LogRegs("wrzero") = CtrRegs
          /\ Cardinality(LogIdx("wrmask")) = NumSlots
          /\ Cardinality(LogIdx("wrzero")) = NumSlots
    /\ FirstNewPending =>
          \A i \in Slots : ~EnableSet(CtlReg(i)) /\ CtrReg(i) = Zero

\* the first new control value is about to be written in a run that found
\* slot 2 enabled and is going to enable slot 0
C3_Witness ==
    /\ FirstNewPending
    /\ tmp[2] = VEn
    /\ msg[0] = VEn
    /\ Len(log) = 2 * NumSlots

\* C4: when the command is write-control and the copy of the envelope fails,
\* lamina_ioctl returns an error and write_pmcs is not run for the request, so
\* no register is written.
C4_NoEngineOnCopyFailure ==
    \A c \in Callers :
        (cmd[c] = LAMINA_CMD_WRITECTL /\ res[c] # 0) =>
            /\ pc[c] # "wait"
            /\ engOwner # c
            /\ pc[c] = "ret" => res[c] < 0

\* the slots whose control register had the enable flag set at load time
EnabledAtBoot == {i \in Slots : EnableSet(BootCtl(i))}
InitOver == mod \notin {"start", "init_pmcs"}

\* C5 as stated: whenever a control register is enabled before
\* initialization, lamina_init fails, the failure names the lowest enabled
\* slot, and the device is not registered.
C5_AsStated ==
    (EnabledAtBoot # {} /\ InitOver) =>
        /\ mod = "failed"
        /\ ~registered
        /\ initErr = "active"
        /\ errSlot = MinOf(EnabledAtBoot)

\* C5, amended: whenever a control register is enabled before initialization,
\* lamina_init fails and the device is not registered; the failure is the
\* vendor check, the CR4.PCE check, a failed read of a control register at or
\* below the lowest enabled slot, or else names the lowest enabled slot.
C5_EnabledRefused ==
    (EnabledAtBoot # {} /\ InitOver) =>
        /\ mod = "failed"
        /\ ~registered
        /\ \/ initErr = "unsupported" /\ vendor # "AMD"
           \/ initErr = "pce_unset" /\ vendor = "AMD" /\ ~cr4pce
           \/ /\ initErr = "rdmsr"
              /\ vendor = "AMD" /\ cr4pce
              /\ errSlot <= MinOf(EnabledAtBoot)
           \/ /\ initErr = "active"
              /\ vendor = "AMD" /\ cr4pce
              /\ errSlot = MinOf(EnabledAtBoot)

\* init_pmcs refused slot 3, the lower of two enabled slots
C5_Witness ==
    /\ mod = "failed" /\ initErr = "active" /\ errSlot = 3
    /\ EnabledAtBoot = {3, 5}
    /\ ~registered

\* C6 as stated: when init_pmcs fails because a slot is enabled, no register
\* has been changed.
C6_AsStated ==
    (mod = "failed" /\ initErr = "active") => msr[TARGET_CPU] = boot

\* C6, amended: when init_pmcs fails because slot i is enabled, the control
\* and count registers of slot i and of every slot above it hold the values
\* they had before the call, and each register of a slot below i holds its
\* old value or zero.
C6_FailingSlotOnwardsUntouched ==
    (mod = "failed" /\ initErr = "active") =>
        /\ \A j \in Slots : j >= errSlot =>
              CtlReg(j) = BootCtl(j) /\ CtrReg(j) = BootCtr(j)
        /\ \A j \in Slots : j < errSlot =>
              /\ CtlReg(j) \in {BootCtl(j), Zero}
              /\ CtrReg(j) \in {BootCtr(j), Zero}

\* init_pmcs failed at slot 1 after zeroing a nonzero slot 0; slot 1 had a
\* tally in its count register, which is still there
C6_Witness ==
    /\ mod = "failed" /\ initErr = "active" /\ errSlot = 1
    /\ BootCtl(0) = VDis /\ CtlReg(0) = Zero
    /\ BootCtl(1) = VEn /\ CtlReg(1) = VEn

EngineIdle ==
    /\ engOwner = 0
    /\ log = <<>>
    /\ \A c \in AllCallers : pc[c] = "idle"

\* C7: the device is registered, and write_pmcs can run, only after the
\* vendor check, the CR4.PCE check and init_pmcs have all succeeded; once
\* lamina_init has failed the device is never registered and write_pmcs never
\* runs.
C7_RegisteredOnlyAfterInit ==
    /\ [](/\ registered => mod = "loaded"
          /\ ~EngineIdle => (mod = "loaded" /\ registered)
          /\ mod \in {"pmcs_ok", "loaded"} =>
                /\ vendor = "AMD"
                /\ cr4pce
                /\ initI = NumSlots
                /\ initErr = "none"
          /\ (vendor # "AMD" \/ ~cr4pce) => (~registered /\ EngineIdle)
          /\ mod = "failed" => (~registered /\ EngineIdle))
    /\ [][mod = "failed" => mod' = "failed"]_vars

\* write_pmcs is running for a command, after a successful load
C7_Witness ==
    /\ mod = "loaded" /\ registered
    /\ engOwner = 1 /\ epc = CodeLen
    /\ env[1][1] = VEn

\* C8: for every command code other than LAMINA_CMD_WRITECTL, lamina_ioctl
\* returns an error, does not run write_pmcs, and leaves the staging buffer
\* and all twelve registers unchanged.
C8_UnknownCommandNoEffect ==
    /\ [](\A c \in Callers :
            (pc[c] # "idle" /\ cmd[c] # LAMINA_CMD_WRITECTL) =>
                /\ pc[c] = "ret"
                /\ res[c] < 0
                /\ engOwner # c)
    /\ [][\A c \in Callers :
            (pc'[c] # "idle" /\ cmd'[c] # LAMINA_CMD_WRITECTL) =>
                /\ msg' = msg
                /\ msr' = msr
                /\ UNCHANGED engVars]_vars

\* an unknown command has returned while the staging buffer and the
\* registers hold what an earlier write-control command left
C8_Witness ==
    /\ pc[1] = "ret" /\ cmd[1] = LAMINA_CMD_WRITECTL + 1
    /\ res[1] = -EINVAL
    /\ msg[2] = VEn /\ CtlReg(2) = VEn

\* C9: lamina_ioctl does not return from a write-control command before the
\* write_pmcs run it started has made all its register accesses, the last
\* control-register write included, on TARGET_CPU.
C9_ReturnAfterRun ==
    /\ engOwner # 0 => engCpu = TARGET_CPU
    /\ \A c \in Callers :
          (pc[c] = "ret" /\ cmd[c] = LAMINA_CMD_WRITECTL) =>
              /\ done[c]
              /\ engOwner = c /\ epc = CodeLen + 1
              /\ Cardinality(LogIdx("wrmsg")) = NumSlots
              /\ Len(log) = 3 * NumSlots
              /\ log[Len(log)].op = "wrmsg"

\* a write-control command has returned after its run wrote slot 5
C9_Witness ==
    /\ pc[1] = "ret" /\ cmd[1] = LAMINA_CMD_WRITECTL
    /\ Len(log) = 3 * NumSlots
    /\ log[3 * NumSlots].val = VEn

\* C10: in every state in which init_pmcs has returned 0, all six control
\* registers and all six count registers of the designated core are zero.
C10_ReadyMeansZeroed ==
    mod = "pmcs_ok" =>
        \A i \in Slots : CtlReg(i) = Zero /\ CtrReg(i) = Zero

\* C11: when the vendor is not AMD, or CR4.PCE is unset, lamina_init fails
\* with the matching message before init_pmcs is entered: no control or count
\* register is read or written, and the device is not registered.
C11_EarlyChecksTouchNothing ==
    (vendor # "AMD" \/ ~cr4pce) =>
        /\ mod \in {"start", "failed"}
        /\ initI = 0
        /\ msr[TARGET_CPU] = boot
        /\ ~registered
        /\ engOwner = 0 /\ log = <<>>
        /\ mod = "failed" =>
              /\ initErr = (IF vendor # "AMD" THEN "unsupported"
                            ELSE "pce_unset")
              /\ errSlot = -1

\* the load failed on CR4.PCE with an enabled counter and a tally in the
\* registers, both still there
C11_Witness ==
    /\ mod = "failed" /\ initErr = "pce_unset"
    /\ vendor = "AMD" /\ ~cr4pce
    /\ CtlReg(0) = VEn /\ CtrReg(0) = VCnt

\* C13 as stated: the status lamina_ioctl returns is zero exactly when the
\* command was write-control and the envelope was copied in full, and is
\* negative for every failed request, an unknown command and a failed or
\* partial copy alike.
C13_StatusSign ==
    \A c \in Callers :
        pc[c] = "ret" =>
            /\ res[c] <= 0
            /\ cmd[c] # LAMINA_CMD_WRITECTL => res[c] < 0
            /\ res[c] = 0 => (cmd[c] = LAMINA_CMD_WRITECTL /\ msg = env[c])

\* the write of slot i's new control value is the next access of the run
NewPendingFor(i) ==
    /\ engOwner # 0
    /\ epc <= CodeLen
    /\ WritePmcsCode[epc].op = "wrmsg"
    /\ WritePmcsCode[epc].reg = 2 * i

\* C14 as stated: immediately before slot i's new control value is written,
\* slot i's control register is zero, its count register is zero and its
\* enable flag is clear.
C14_AsStated ==
    \A i \in Slots :
        NewPendingFor(i) =>
            /\ CtlReg(i) = Zero
            /\ CtrReg(i) = Zero
            /\ ~EnableSet(CtlReg(i))

\* C14, amended: immediately before slot i's new control value is written,
\* slot i's count register is zero and its enable flag is clear; its control
\* register holds the value it had when the run began with bit 22 cleared,
\* which is zero only if that value had no other bit set.
C14_DisabledAndCleared ==
    \A i \in Slots :
        NewPendingFor(i) =>
            /\ CtrReg(i) = Zero
            /\ ~EnableSet(CtlReg(i))
            /\ CtlReg(i) = tmp[i] \ {EnableShift}
            /\ CtlReg(i) = Zero <=> tmp[i] \subseteq {EnableShift}

\* slot 5 is about to get its new value; it was enabled when the run began
\* and still holds its other bits
C14_Witness ==
    /\ NewPendingFor(5)
    /\ tmp[5] = VEn
    /\ CtlReg(5) = VEn \ {EnableShift}
    /\ CtrReg(5) = Zero

\* slot i has been read and not yet written by the run in progress
ReadNotMasked(i) ==
    /\ engOwner # 0
    /\ \E k \in 1 .. (epc - 1) :
          WritePmcsCode[k].op = "rd" /\ WritePmcsCode[k].reg = 2 * i
    /\ 2 * i \notin LogRegs("wrmask")
\* slot i has had its disable write and not yet its new value
MaskedNotNew(i) ==
    /\ engOwner # 0
    /\ 2 * i \in LogRegs("wrmask")
    /\ 2 * i \notin LogRegs("wrmsg")

\* C17: the disable phase changes only the enable flag: the value v read from
\* a slot is the value the register holds until its disable write, and from
\* that write until the write phase the register holds v with bit 22 cleared
\* and every other bit, bits 32..63 included, as in v.
C17_DisableOnlyClearsEnable ==
    \A i \in Slots :
        /\ ReadNotMasked(i) => CtlReg(i) = tmp[i]
        /\ MaskedNotNew(i) =>
              /\ CtlReg(i) = tmp[i] \ {EnableShift}
              /\ \A b \in 0 .. 63 :
                    b # EnableShift => (b \in CtlReg(i) <=> b \in tmp[i])

\* after the disable phase slot 1 holds 0x200000300d0: the enabled value it
\* had, bit 41 included, without bit 22
C17_Witness ==
    /\ MaskedNotNew(1)
    /\ tmp[1] = VEn
    /\ CtlReg(1) = {4, 6, 7, 16, 17, 41}
    /\ LogIdx("wrzero") # {}

\* C18: when init_pmcs fails at slot i (the read of its control register
\* fails or its enable flag is set), the control and count registers of
\* every slot below i are zero and those of every slot from i on are
\* unchanged.
C18_StopsAtFirstViolation ==
    (mod = "failed" /\ initErr \in {"rdmsr", "active"}) =>
        /\ \A j \in Slots : j < errSlot =>
              CtlReg(j) = Zero /\ CtrReg(j) = Zero
        /\ \A j \in Slots : j >= errSlot =>
              CtlReg(j) = BootCtl(j) /\ CtrReg(j) = BootCtr(j)

\* the step is a write of a new control value by the run in progress
NewValueWritten ==
    /\ engOwner # 0
    /\ epc <= CodeLen
    /\ epc' = epc + 1
    /\ Len(log') = Len(log) + 1
    /\ log'[Len(log')].op = "wrmsg"

\* C15: write-control commands are not synchronized over the one staging
\* buffer: a caller that is not in a call can always start the copy of its
\* envelope into msg and a caller that is copying can always store its next
\* word, whatever the other caller and write_pmcs are doing, and each new
\* control value a run writes to slot i is word i of msg as msg is at that
\* write, whoever stored it; so a run started for one caller can write a word
\* of the other caller's envelope (the witness).
C15_UnsynchronizedStagingBuffer ==
    /\ [](\A c \in AllCallers :
            /\ (registered /\ pc[c] = "idle") =>
                  ENABLED IoctlCopyBeginFrom(c, ConcEnvelopes)
            /\ pc[c] = "copying" => ENABLED IoctlCopyWord(c))
    /\ [][NewValueWritten =>
            \E i \in Slots :
                /\ log'[Len(log')].reg = 2 * i
                /\ log'[Len(log')].val = msg[i]
                /\ msr'[TARGET_CPU][2 * i] = msg[i]]_vars

\* the run started for caller 1, whose envelope has the enabled word in slot
\* 1, wrote slot 1 from caller 2's envelope, copied while the run was under
\* way, and has not yet written slot 4
C15_Witness ==
    /\ engOwner = 1 /\ pc[1] = "wait" /\ res[1] = 0 /\ env[1] = EnvA
    /\ pc[2] = "copied" /\ res[2] = 0 /\ env[2] = EnvB
    /\ \E k \in LogIdx("wrmsg") :
          /\ log[k].reg = 2
          /\ log[k].val = EnvB[1]
          /\ log[k].val # EnvA[1]
    /\ \E k \in LogIdx("wrmsg") : log[k].reg = 0
    /\ 8 \notin LogRegs("wrmsg")

\* the callers whose write_pmcs run has been started and has not finished
Running == {c \in AllCallers : pc[c] = "wait" /\ ~done[c]}

\* C16: at most one write_pmcs run is in progress at a time, and a run, once
\* started, makes all its register accesses before any access of another
\* run: until its last access the engine stays with the same run and
\* advances one access at a time, and no register changes except by it.
C16_RunsDoNotInterleave ==
    /\ [](/\ Cardinality(Running) <= 1
          /\ \A c \in Running : engOwner = c /\ epc <= CodeLen
          /\ (engOwner # 0 /\ epc <= CodeLen) => engOwner \in Running)
    /\ [][(engOwner # 0 /\ epc <= CodeLen) =>
            /\ engOwner' = engOwner
            /\ epc' \in {epc, epc + 1}
            /\ epc' = epc => (log' = log /\ tmp' = tmp /\ msr' = msr)
            /\ Len(log') >= Len(log)
            /\ SubSeq(log', 1, Len(log)) = log]_vars
    /\ [][(mod = "loaded" /\ msr' # msr) =>
            (engOwner # 0 /\ engOwner' = engOwner /\ epc' = epc + 1)]_vars

\* caller 2's run is under way while caller 1, whose run has finished, has
\* not yet returned from smp_call_function_single
C16_Witness ==
    /\ pc[1] = "wait" /\ done[1]
    /\ pc[2] = "wait" /\ ~done[2]
    /\ engOwner = 2 /\ epc > NumSlots /\ epc <= CodeLen
    /\ env[1] = EnvA /\ env[2] = EnvB

\* C12: issuing the same write-control command twice in succession leaves
\* the twelve registers of TARGET_CPU (and those of every other core) as
\* issuing it once does, for every envelope and every register contents
\* before the first.
C12_SecondIssueChangesNothing ==
    (calls = 2 /\ pc[1] = "ret") =>
        /\ msr[TARGET_CPU] = after1
        /\ \A c \in Cpus : c # TARGET_CPU => msr[c] = ZeroMsrs

\* the command has been issued twice with an envelope that enables slots 2
\* and 5
C12_Witness ==
    /\ calls = 2
    /\ pc[1] = "ret" /\ res[1] = 0
    /\ env[1][2] = VEn /\ env[1][5] = VEn
    /\ after1[4] = VEn /\ after1[10] = VEn /\ after1[1] = Zero
    /\ tmp[2] = VEn /\ Len(log) = 3 * NumSlots

=============================================================================
